---- MODULE Spec2Model ----
(***************************************************************************)
(* The download-delivery pipeline of src/src/utils/downloadTest.js: one    *)
(* downloadFile call, its six transfer strategies, the trigger             *)
(* (forceDownload / tryDataUrlDownload) and the browser events they wait   *)
(* for.  The browser (network, image decoding, FileReader, DOM calls that  *)
(* may throw, timers) is the environment: each of its answers is a         *)
(* nondeterministic choice.                                                *)
(***************************************************************************)
EXTENDS Integers, Sequences, FiniteSets, TLC

VARIABLES
    url,          \* downloadFile's first argument
    filename,     \* downloadFile's second argument
    contentType,  \* the content type the server reports for the resource
    pc,           \* downloadFile: "init", "await", "resolved", "rejected"
    cur,          \* the strategy downloadFile is awaiting
    isImage,      \* const isImage of downloadFile
    outcome,      \* the TransferOutcome downloadFile resolved with
    promise,      \* each strategy's promise: none, pending, resolved, rejected
    started,      \* the strategies started, in order
    stage,        \* the event the awaited strategy is waiting for
    abortTimer,   \* downloadViaFetch: the timeout timer is armed
    success,      \* forceDownload: let success
    attempts,     \* forceDownload: the activation approaches attempted
    dispatched,   \* forceDownload: the activations that returned without throwing
    bg,           \* work a settled strategy left behind (timers, readers)
    fetches,      \* fetch() calls issued
    xhrs,         \* XMLHttpRequests sent
    imgLoads,     \* image loads started (img.src = url)
    created,      \* DOM elements created (document.createElement)
    attached,     \* DOM elements attached to document.body
    download,     \* the download attribute of each anchor created
    activated,    \* anchors on which an activation returned without throwing
    failedTrig,   \* strategies whose trigger failed (every activation threw)
    blobUrl,      \* object URLs: strategy -> none, live, revoked
    revokes,      \* calls of URL.revokeObjectURL
    newContexts,  \* new browsing contexts opened (target=_blank click, window.open)
    opened,       \* window.open calls
    overdue,      \* fetch-based strategies whose transfer outlasted timeoutMs
    aborted,      \* downloadViaFetch: controller.abort() was called
    rejection,    \* downloadViaFetch: the message it rejected with
    resolved,     \* the value a call of ensureFileExtension returned
    nFiles,       \* downloadMultipleFiles: files.length
    concurrency,  \* downloadMultipleFiles: options.concurrency
    bpc,          \* downloadMultipleFiles: "init", "await", "resolved", "rejected"
    loopI,        \* downloadMultipleFiles: the loop variable i
    item,         \* each item's async callback: idle, downloading, delay, done, threw
    calls,        \* downloadFile invocations per item index
    results,      \* const results
    successful,   \* let successful
    failed,       \* let failed
    delayed,      \* items whose 300 ms inter-item timer has fired
    upFiles,      \* bulkUpload: files.length
    upConcurrency,\* bulkUpload: the concurrency argument
    upc,          \* bulkUpload: "init", "await", "counts", "returned"
    uploadQueue,  \* bulkUpload: const uploadQueue
    activeUploads,\* bulkUpload: const activeUploads
    upload,       \* each file's uploadFile: queued, uploading, success, error
    successCount, \* bulkUpload: let successCount
    failureCount, \* bulkUpload: let failureCount
    uploadResults,\* bulkUpload: const results
    returned,     \* bulkUpload: the counts in the object it returned
    notifications,\* NotificationProvider: the notifications state, newest first
    unreadCount,  \* NotificationProvider: the unreadCount state
    listeners,    \* PricingManager: this.listeners, key -> unsubscribe function
    cache,        \* PricingManager: the keys of this.cache
    activeListeners, \* backend listeners that are delivering snapshots
    nextListener, \* the next backend listener onSnapshot will create
    keyOf,        \* the listener key each backend listener was created for
    managerCalls, \* calls of each unsubscribe function made by PricingManager
    callerCalls,  \* calls of each returned unsubscribe function made by its caller
    cleaned,      \* PricingManager: cleanup() was the last operation
    storage,      \* localStorage: the favorited image ids under favorites_<user>
    lastToggle,   \* the latest toggleFavorite call and what it returned
    prevToggle    \* the toggleFavorite call before it

vars == <<url, filename, contentType, pc, cur, isImage, outcome, promise,
          started, stage, abortTimer, success, attempts, dispatched, bg, fetches, xhrs,
          imgLoads, created, attached, download, activated, failedTrig,
          blobUrl, revokes, newContexts, opened, overdue, aborted, rejection,
          resolved, nFiles, concurrency, bpc, loopI, item, calls, results,
          successful, failed, delayed, upFiles, upConcurrency, upc,
          uploadQueue, activeUploads, upload, successCount, failureCount,
          uploadResults, returned, notifications, unreadCount, listeners,
          cache, activeListeners, nextListener, keyOf, managerCalls,
          callerCalls, cleaned, storage, lastToggle, prevToggle>>

inputs == <<url, filename, contentType>>
orch == <<pc, cur, isImage, outcome, started>>
dom == <<created, attached, download, activated>>
net == <<fetches, xhrs, imgLoads>>
trig == <<success, attempts, dispatched, failedTrig, blobUrl, revokes>>
tabs == <<newContexts, opened>>
timing == <<overdue, aborted, rejection>>
pure == <<resolved>>
batch == <<nFiles, concurrency, bpc, loopI, item, calls, results, successful, failed,
           delayed>>
uploads == <<upFiles, upConcurrency, upc, uploadQueue, activeUploads, upload,
             successCount, failureCount, uploadResults, returned>>
notifs == <<notifications, unreadCount>>
pricing == <<listeners, cache, activeListeners, nextListener, keyOf, managerCalls,
             callerCalls, cleaned>>
favs == <<storage, lastToggle, prevToggle>>
apps == <<uploads, notifs, pricing, favs>>

---------------------------------------------------------------------------
(* Strings, as JavaScript's String methods compute them.                   *)

\* s.includes(sub)
Includes(s, sub) ==
    \E i \in 1..(Len(s) - Len(sub) + 1) : SubSeq(s, i, i + Len(sub) - 1) = sub

\* s.indexOf(sub), 1-based; 0 when absent
IndexOf(s, sub) ==
    LET hits == {i \in 1..(Len(s) - Len(sub) + 1) : SubSeq(s, i, i + Len(sub) - 1) = sub}
    IN IF hits = {} THEN 0 ELSE CHOOSE i \in hits : \A j \in hits : i <= j

\* s.lastIndexOf(sub), 1-based; 0 when absent
LastIndexOf(s, sub) ==
    LET hits == {i \in 1..(Len(s) - Len(sub) + 1) : SubSeq(s, i, i + Len(sub) - 1) = sub}
    IN IF hits = {} THEN 0 ELSE CHOOSE i \in hits : \A j \in hits : j <= i

\* s.split('.').pop()
AfterLastDot(s) == SubSeq(s, LastIndexOf(s, ".") + 1, Len(s))

\* s.endsWith(suffix)
EndsWith(s, suffix) ==
    Len(s) >= Len(suffix) /\ SubSeq(s, Len(s) - Len(suffix) + 1, Len(s)) = suffix

\* s.startsWith(prefix)
StartsWith(s, prefix) == Len(s) >= Len(prefix) /\ SubSeq(s, 1, Len(prefix)) = prefix

UpperCase == <<"A", "B", "C", "D", "E", "F", "G", "H", "I", "J", "K", "L", "M",
               "N", "O", "P", "Q", "R", "S", "T", "U", "V", "W", "X", "Y", "Z">>
LowerCase == <<"a", "b", "c", "d", "e", "f", "g", "h", "i", "j", "k", "l", "m",
               "n", "o", "p", "q", "r", "s", "t", "u", "v", "w", "x", "y", "z">>

LowerChar(c) ==
    IF \E k \in 1..26 : UpperCase[k] = c
    THEN LowerCase[CHOOSE k \in 1..26 : UpperCase[k] = c]
    ELSE c

\* s.toLowerCase()
RECURSIVE ToLowerCase(_)
ToLowerCase(s) ==
    IF s = "" THEN ""
    ELSE LowerChar(SubSeq(s, 1, 1)) \o ToLowerCase(SubSeq(s, 2, Len(s)))

---------------------------------------------------------------------------
(* URLs, as the browser's URL parser reads them.                           *)

\* new URL(u) does not throw: u is absolute (it carries a scheme)
UrlParses(u) ==
    \/ \E scheme \in {"https://", "http://"} :
          StartsWith(u, scheme) /\ Len(u) > Len(scheme)
    \/ \E scheme \in {"blob:", "data:"} : StartsWith(u, scheme)

\* the 1-based index at which the query or fragment of s starts; Len(s)+1 if none
QueryStart(s) ==
    LET q == IndexOf(s, "?")
        h == IndexOf(s, "#")
    IN IF q = 0 /\ h = 0 THEN Len(s) + 1
       ELSE IF q = 0 THEN h
       ELSE IF h = 0 THEN q
       ELSE IF q < h THEN q ELSE h

\* new URL(u).pathname, for a u that parses
Pathname(u) ==
    IF StartsWith(u, "blob:") \/ StartsWith(u, "data:")
    THEN SubSeq(u, 6, QueryStart(u) - 1)
    ELSE LET rest == SubSeq(u, IndexOf(u, "://") + 3, Len(u))
             stop == QueryStart(rest)
             slash == IndexOf(rest, "/")
         IN IF slash = 0 \/ slash >= stop THEN "/"
            ELSE SubSeq(rest, slash, stop - 1)

ImageExtensions == {"jpg", "jpeg", "png", "webp", "gif"}

\* /\.(jpg|jpeg|png|webp|gif)(\?|$)/i.test(u)
MatchesImageExtension(u) ==
    \E e \in ImageExtensions : \E i \in 1..Len(u) :
        /\ i + Len(e) <= Len(u)
        /\ ToLowerCase(SubSeq(u, i, i + Len(e))) = "." \o e
        /\ \/ i + Len(e) = Len(u)
           \/ SubSeq(u, i + Len(e) + 1, i + Len(e) + 1) = "?"

\* const isImage of downloadFile
IsImageUrl(u) == Includes(u, "image") \/ MatchesImageExtension(u)

\* const isFirebaseStorage of downloadFile, and the test of downloadViaXHR
IsFirebaseStorage(u) == Includes(u, "firebasestorage.googleapis.com")

typeMap ==
    ("image/jpeg" :> "jpg") @@ ("image/jpg" :> "jpg") @@ ("image/png" :> "png") @@
    ("image/webp" :> "webp") @@ ("image/gif" :> "gif") @@ ("video/mp4" :> "mp4") @@
    ("video/webm" :> "webm") @@ ("video/avi" :> "avi") @@ ("video/mov" :> "mov")

ensureFileExtension(name, u, type) ==
    IF name = "" THEN "download.jpg"
    ELSE IF Includes(name, ".") /\ Len(AfterLastDot(name)) <= 4 THEN name
    ELSE IF type # "" /\ ToLowerCase(type) \in DOMAIN typeMap
         THEN name \o "." \o typeMap[ToLowerCase(type)]
    ELSE IF /\ UrlParses(u)
            /\ LET urlExtension == AfterLastDot(Pathname(u))
               IN /\ urlExtension # ""
                  /\ Len(urlExtension) <= 4
                  /\ ~Includes(urlExtension, "/")
         THEN name \o "." \o AfterLastDot(Pathname(u))
    ELSE IF Includes(u, "video") \/ Includes(u, ".mp4") \/ Includes(u, ".webm")
         THEN name \o ".mp4"
    ELSE name \o ".jpg"

---------------------------------------------------------------------------
(* The calls the model explores.                                           *)

Urls ==
    { "",
      "https://good.example/img.jpg",
      "https://cdn.example/photo/123",
      "https://cdn.example/images/clip.mp4",
      "/media/IMG.PNG" }

Filenames == {"", "photo", "img.jpg"}

ContentTypes == {"image/png", "video/mp4"}

Strategies == {"direct-fetch", "fetch", "xhr", "canvas", "iframe", "newtab"}

\* the priority order of downloadFile's six try blocks
Order == <<"direct-fetch", "fetch", "xhr", "canvas", "iframe", "newtab">>

Rank(s) == CHOOSE k \in 1..Len(Order) : Order[k] = s

\* the approaches of forceDownload, in the order of its try blocks
Approaches == <<"click", "mouse-event", "focus-click", "user-event">>

NoOutcome == [success |-> FALSE, method |-> "pending", error |-> ""]

Succeeded(m) == [success |-> TRUE, method |-> m, error |-> ""]

AllFailed ==
    [success |-> FALSE, method |-> "none",
     error |-> "All download methods failed. Please try again or contact support."]

IsImageType(type) == StartsWith(type, "image/")

\* no call of downloadFile has been made
NoCall ==
    /\ pc = "init"
    /\ cur = "none"
    /\ isImage = FALSE
    /\ outcome = NoOutcome
    /\ promise = [s \in Strategies |-> "none"]
    /\ started = <<>>
    /\ stage = "none"
    /\ abortTimer = FALSE
    /\ success = FALSE
    /\ attempts = <<>>
    /\ dispatched = <<>>
    /\ bg = "none"
    /\ fetches = 0
    /\ xhrs = 0
    /\ imgLoads = 0
    /\ created = {}
    /\ attached = {}
    /\ download = <<>>
    /\ activated = {}
    /\ failedTrig = {}
    /\ blobUrl = [s \in Strategies |-> "none"]
    /\ revokes = 0
    /\ newContexts = 0
    /\ opened = 0
    /\ overdue = {}
    /\ aborted = FALSE
    /\ rejection = "none"

\* no call of downloadMultipleFiles has been made
BatchIdle ==
    /\ nFiles = 0
    /\ concurrency = 1
    /\ bpc = "init"
    /\ loopI = 0
    /\ item = <<>>
    /\ calls = <<>>
    /\ results = <<>>
    /\ successful = 0
    /\ failed = 0
    /\ delayed = {}

\* the value bulkUpload has returned: none yet
NotReturned == [successCount |-> 0, failureCount |-> 0, totalCount |-> 0, results |-> 0]

\* no call of bulkUpload has been made
UploadIdle ==
    /\ upFiles = 0
    /\ upConcurrency = 1
    /\ upc = "init"
    /\ uploadQueue = <<>>
    /\ activeUploads = <<>>
    /\ upload = <<>>
    /\ successCount = 0
    /\ failureCount = 0
    /\ uploadResults = <<>>
    /\ returned = NotReturned

\* a notification of the list
Notification(id, read) == [id |-> id, read |-> read]

\* NotificationProvider after its mount effect: the three sample
\* notifications, two of them unread
NotificationsMounted ==
    /\ notifications = <<Notification("1", FALSE), Notification("2", FALSE),
                         Notification("3", TRUE)>>
    /\ unreadCount = 2

MaxListeners == 3

\* the backend listeners onSnapshot can create
ListenerIds == 1 .. MaxListeners

\* new PricingManager(): no listener, an empty cache
PricingConstructed ==
    /\ listeners = <<>>
    /\ cache = {}
    /\ activeListeners = {}
    /\ nextListener = 1
    /\ keyOf = [l \in ListenerIds |-> "none"]
    /\ managerCalls = [l \in ListenerIds |-> 0]
    /\ callerCalls = [l \in ListenerIds |-> 0]
    /\ cleaned = FALSE

FavoriteUsers == {"default", "u1"}

\* no toggleFavorite call yet
NoToggle == [image |-> "none", user |-> "none", isFavorited |-> FALSE, before |-> FALSE]

\* localStorage holds no favorites and nothing has been toggled
FavoritesEmpty ==
    /\ storage = [u \in FavoriteUsers |-> {}]
    /\ lastToggle = NoToggle
    /\ prevToggle = NoToggle

\* the other modules of the application, untouched
AppsIdle == UploadIdle /\ NotificationsMounted /\ PricingConstructed /\ FavoritesEmpty

\* the download utilities, untouched
DownloadIdle ==
    /\ url = "" /\ filename = "" /\ contentType = ""
    /\ NoCall
    /\ resolved = "unset"
    /\ BatchIdle

\* one call downloadFile(url, filename) is about to be made
Init ==
    /\ url \in Urls
    /\ filename \in Filenames
    /\ contentType \in ContentTypes
    /\ NoCall
    /\ resolved = "unset"
    /\ BatchIdle
    /\ AppsIdle

---------------------------------------------------------------------------
(* downloadFile: validation and the fallback chain.                        *)

\* Validate with the filename test left out: if (!url) throw
Validate_UrlOnly(u, name) == u # ""

\* if (!url || !filename) throw: the arguments pass
Validate(u, name) == u # "" /\ name # ""

\* NextStrategy with the iframe try block left out
NextStrategy_SkipIframe(s, img) ==
    CASE s = "direct-fetch" -> "fetch"
      [] s = "fetch" -> "xhr"
      [] s = "xhr" -> IF img THEN "canvas" ELSE "newtab"
      [] s = "canvas" -> "newtab"
      [] OTHER -> "none"

\* the try block downloadFile enters when the try block of s has caught a rejection
NextStrategy(s, img) ==
    CASE s = "direct-fetch" -> "fetch"
      [] s = "fetch" -> "xhr"
      [] s = "xhr" -> IF img THEN "canvas" ELSE "iframe"
      [] s = "canvas" -> "iframe"
      [] s = "iframe" -> "newtab"
      [] OTHER -> "none"

\* Falls with the await left out: the next strategy starts while the current
\* one is still pending
Falls_NoAwait(n) ==
    /\ pc = "await"
    /\ cur # "none"
    /\ promise[cur] \in {"pending", "rejected"}
    /\ n = (CASE cur = "direct-fetch" -> "fetch"
              [] cur = "fetch" -> "xhr"
              [] cur = "xhr" -> IF isImage THEN "canvas" ELSE "iframe"
              [] cur = "canvas" -> "iframe"
              [] cur = "iframe" -> "newtab"
              [] OTHER -> "none")

\* downloadFile's catch of s has run and the chain goes on with strategy n
Falls(n) ==
    /\ pc = "await"
    /\ cur # "none"
    /\ promise[cur] = "rejected"
    /\ NextStrategy(cur, isImage) = n

\* the await of strategy n begins
Await(n) ==
    /\ cur' = n
    /\ started' = Append(started, n)
    /\ UNCHANGED <<pc, isImage, outcome>>

\* the link element a strategy creates: its id
Anchor(s) == s \o ".a"
DataAnchor(s) == s \o ".data"

\* downloadFile up to its first await: validation, then downloadViaDirectFetch
\* up to its await of fetch()
Start ==
    /\ pc = "init"
    /\ IF ~Validate(url, filename)
       THEN /\ pc' = "rejected"
            /\ UNCHANGED <<cur, isImage, outcome, started, promise, stage, fetches>>
       ELSE /\ pc' = "await"
            /\ isImage' = IsImageUrl(url)
            /\ cur' = "direct-fetch"
            /\ started' = Append(started, "direct-fetch")
            /\ promise' = [promise EXCEPT !["direct-fetch"] = "pending"]
            /\ stage' = "fetch"
            /\ fetches' = fetches + 1
            /\ UNCHANGED outcome
    /\ UNCHANGED <<apps, inputs, timing, pure, batch, abortTimer, bg, xhrs, imgLoads, dom, trig, tabs>>

\* a strategy resolved: return { success: true, method }
OnResolved ==
    /\ pc = "await"
    /\ cur # "none"
    /\ promise[cur] = "resolved"
    /\ pc' = "resolved"
    /\ outcome' = Succeeded(cur)
    /\ UNCHANGED <<apps, inputs, timing, pure, batch, cur, isImage, started, promise, stage, abortTimer, bg,
                   net, dom, trig, tabs>>

---------------------------------------------------------------------------
(* Strategy 1: downloadViaDirectFetch.                                     *)

\* fetch() settles: a response that is ok, a response that is not, a network error
DirectFetchResponse ==
    /\ cur = "direct-fetch" /\ stage = "fetch"
    /\ \E r \in {"ok", "http", "network"} :
         IF r = "ok"
         THEN stage' = "blob" /\ UNCHANGED promise
         ELSE stage' = "none" /\ promise' = [promise EXCEPT ![cur] = "rejected"]
    /\ UNCHANGED <<apps, inputs, timing, pure, batch, orch, abortTimer, bg, net, dom, trig, tabs>>

\* response.blob() settles; on success the FileReader is started and the
\* function returns, which resolves its promise
DirectBlob ==
    /\ cur = "direct-fetch" /\ stage = "blob"
    /\ \E r \in {"ok", "fail"} :
         IF r = "ok"
         THEN /\ promise' = [promise EXCEPT ![cur] = "resolved"]
              /\ bg' = "reader"
         ELSE /\ promise' = [promise EXCEPT ![cur] = "rejected"]
              /\ bg' = bg
    /\ stage' = "none"
    /\ UNCHANGED <<apps, inputs, timing, pure, batch, orch, abortTimer, net, dom, trig, tabs>>

\* reader.onload, a task that runs after downloadFile's continuation: the link
\* is created and appended and the 10 ms timer set; a read error has no handler
DirectReaderLoad ==
    /\ pc = "resolved"
    /\ bg = "reader"
    /\ \E r \in {"load", "error"} :
         IF r = "load"
         THEN /\ bg' = "t10"
              /\ created' = created \cup {Anchor("direct-fetch")}
              /\ attached' = attached \cup {Anchor("direct-fetch")}
              /\ download' = download @@ (Anchor("direct-fetch") :> filename)
         ELSE /\ bg' = "dead"
              /\ UNCHANGED <<created, attached, download>>
    /\ UNCHANGED <<apps, inputs, timing, pure, batch, orch, promise, stage, abortTimer, net, activated, trig, tabs>>

\* the 10 ms timer: link.click(), then the 100 ms timer is set; a click that
\* throws is uncaught and the removal is never scheduled
DirectTimer10 ==
    /\ bg = "t10"
    /\ \E r \in {"ok", "throws"} :
         IF r = "ok"
         THEN /\ bg' = "t100"
              /\ activated' = activated \cup {Anchor("direct-fetch")}
              /\ UNCHANGED failedTrig
         ELSE /\ bg' = "crashed"
              /\ failedTrig' = failedTrig \cup {"direct-fetch"}
              /\ UNCHANGED activated
    /\ UNCHANGED <<apps, inputs, timing, pure, batch, orch, promise, stage, abortTimer, net, created, attached,
                   download, success, attempts, dispatched, blobUrl, revokes, tabs>>

\* the 100 ms timer: document.body.removeChild(link)
DirectTimer100 ==
    /\ bg = "t100"
    /\ bg' = "done"
    /\ attached' = attached \ {Anchor("direct-fetch")}
    /\ UNCHANGED <<apps, inputs, timing, pure, batch, orch, promise, stage, abortTimer, net, created, download,
                   activated, trig, tabs>>

---------------------------------------------------------------------------
(* The trigger: forceDownload and tryDataUrlDownload, as called by the     *)
(* strategies fetch, xhr and canvas.                                       *)

Triggering == {"fetch", "xhr", "canvas"}

\* what the caller of forceDownload does when forceDownload settles:
\* downloadViaFetch and xhr.onload resolve or reject their promise; the async
\* callback of canvas.toBlob resolves it, and on a rejection the callback's own
\* promise rejects with nobody listening, so downloadViaCanvas stays pending
CallerSettles(s, r) ==
    IF r = "resolve"
    THEN /\ promise' = [promise EXCEPT ![s] = "resolved"] /\ stage' = "none"
         /\ UNCHANGED rejection
    ELSE IF s = "canvas"
    THEN stage' = "hung" /\ UNCHANGED <<promise, rejection>>
    ELSE /\ promise' = [promise EXCEPT ![s] = "rejected"] /\ stage' = "none"
         /\ rejection' = IF s = "fetch" THEN "failed" ELSE rejection

\* let success = false, with nothing attempted yet
NoAttempt == [success |-> FALSE, attempts |-> <<>>, dispatched |-> <<>>]

\* a mutant of Approach: the approach is tried whatever success says
Approach_Unguarded(acc, a, throwers) ==
    [success |-> acc.success \/ a \notin throwers,
     attempts |-> Append(acc.attempts, a),
     dispatched |-> IF a \in throwers THEN acc.dispatched
                    ELSE Append(acc.dispatched, a)]

\* one approach block: if (!success) try { <activation>; success = true }
\* catch (e) {}; the activation throws for the approaches in throwers
Approach(acc, a, throwers) ==
    IF acc.success THEN acc
    ELSE [success |-> a \notin throwers,
          attempts |-> Append(acc.attempts, a),
          dispatched |-> IF a \in throwers THEN acc.dispatched
                         ELSE Append(acc.dispatched, a)]

\* the approach blocks n, n+1, ... in the order of the code
RECURSIVE RunApproaches(_, _, _)
RunApproaches(acc, n, throwers) ==
    IF n > Len(Approaches) THEN acc
    ELSE RunApproaches(Approach(acc, Approaches[n], throwers), n + 1, throwers)

\* forceDownload(blob, name) up to its setTimeout: the object URL, the link, the
\* approaches in order until one does not throw; a throw before the approaches
\* (createObjectURL) rejects at once
ForceDownload(s, name) ==
    \E setup \in {"ok", "throws"}, throwers \in SUBSET {"click", "mouse-event", "focus-click", "user-event"} :
      LET ran == RunApproaches(NoAttempt, 1, throwers) IN
        IF setup = "throws"
        THEN /\ CallerSettles(s, "reject")
             /\ UNCHANGED <<dom, trig>>
        ELSE /\ blobUrl' = [blobUrl EXCEPT ![s] = "live"]
             /\ created' = created \cup {Anchor(s)}
             /\ attached' = attached \cup {Anchor(s)}
             /\ download' = download @@ (Anchor(s) :> name)
             /\ attempts' = ran.attempts
             /\ success' = ran.success
             /\ dispatched' = ran.dispatched
             /\ activated' = IF ran.dispatched # <<>>
                             THEN activated \cup {Anchor(s)} ELSE activated
             /\ stage' = "fd.timer"
             /\ UNCHANGED <<promise, rejection, failedTrig, revokes>>

\* the 300 ms timer of forceDownload: remove the link, revoke the object URL,
\* resolve if an approach worked, else start tryDataUrlDownload; a throw in the
\* cleanup is caught and resolves
ForceTimer ==
    /\ cur \in Triggering /\ stage = "fd.timer"
    /\ \E cleanup \in {"ok", "throws"} :
         IF cleanup = "throws"
         THEN /\ CallerSettles(cur, "resolve")
              /\ failedTrig' = IF success THEN failedTrig ELSE failedTrig \cup {cur}
              /\ UNCHANGED <<attached, blobUrl, revokes>>
         ELSE /\ attached' = attached \ {Anchor(cur)}
              /\ blobUrl' = [blobUrl EXCEPT ![cur] = "revoked"]
              /\ revokes' = revokes + 1
              /\ UNCHANGED failedTrig
              /\ IF success
                 THEN CallerSettles(cur, "resolve")
                 ELSE stage' = "fd.reader" /\ UNCHANGED <<promise, rejection>>
    /\ UNCHANGED <<apps, inputs, overdue, aborted, pure, batch, orch, abortTimer, bg, net, created, download, activated,
                   success, attempts, dispatched, tabs>>

\* tryDataUrlDownload: the FileReader settles; onload creates and appends the
\* data-URL link and sets the 10 ms timer, onerror rejects
DataReader ==
    /\ cur \in Triggering /\ stage = "fd.reader"
    /\ \E r \in {"load", "error"} :
         IF r = "load"
         THEN /\ stage' = "fd.t10"
              /\ created' = created \cup {DataAnchor(cur)}
              /\ attached' = attached \cup {DataAnchor(cur)}
              /\ download' = download @@ (DataAnchor(cur) :> download[Anchor(cur)])
              /\ UNCHANGED <<promise, rejection>>
         ELSE /\ CallerSettles(cur, "reject")
              /\ UNCHANGED <<created, attached, download>>
    /\ UNCHANGED <<apps, inputs, overdue, aborted, pure, batch, orch, abortTimer, bg, net, activated, trig, tabs>>

\* tryDataUrlDownload's 10 ms timer: link.click(), then the 100 ms timer; a
\* click that throws removes the link and rejects
DataTimer10 ==
    /\ cur \in Triggering /\ stage = "fd.t10"
    /\ \E r \in {"ok", "throws"} :
         IF r = "ok"
         THEN /\ stage' = "fd.t100"
              /\ activated' = activated \cup {DataAnchor(cur)}
              /\ dispatched' = Append(dispatched, "data-url")
              /\ UNCHANGED <<promise, rejection, attached, failedTrig>>
         ELSE /\ attached' = attached \ {DataAnchor(cur)}
              /\ failedTrig' = failedTrig \cup {cur}
              /\ CallerSettles(cur, "reject")
              /\ UNCHANGED <<activated, dispatched>>
    /\ UNCHANGED <<apps, inputs, overdue, aborted, pure, batch, orch, abortTimer, bg, net, created, download, success,
                   attempts, blobUrl, revokes, tabs>>

\* tryDataUrlDownload's 100 ms timer: remove the link and resolve
DataTimer100 ==
    /\ cur \in Triggering /\ stage = "fd.t100"
    /\ attached' = attached \ {DataAnchor(cur)}
    /\ CallerSettles(cur, "resolve")
    /\ UNCHANGED <<apps, inputs, overdue, aborted, pure, batch, orch, abortTimer, bg, net, created, download, activated,
                   trig, tabs>>

---------------------------------------------------------------------------
(* Strategy 2: downloadViaFetch.                                           *)

\* catch (directError): downloadViaFetch up to its await of fetch(); the
\* timeout timer is armed
TryFetch ==
    /\ Falls("fetch")
    /\ Await("fetch")
    /\ promise' = [promise EXCEPT !["fetch"] = "pending"]
    /\ stage' = "fetch"
    /\ abortTimer' = TRUE
    /\ fetches' = fetches + 1
    /\ UNCHANGED <<apps, inputs, timing, pure, batch, bg, xhrs, imgLoads, dom, trig, tabs>>

\* fetch() settles before the timeout timer fires (ok, not ok, network
\* error); every path clears the timer, and a failure rejects with the
\* generic message
FetchResponse ==
    /\ cur = "fetch" /\ stage = "fetch"
    /\ \E r \in {"ok", "http", "network"} :
         IF r = "ok"
         THEN stage' = "blob" /\ UNCHANGED <<promise, rejection>>
         ELSE /\ stage' = "none"
              /\ promise' = [promise EXCEPT ![cur] = "rejected"]
              /\ rejection' = "failed"
    /\ abortTimer' = FALSE
    /\ UNCHANGED <<apps, inputs, overdue, aborted, pure, batch, orch, bg, net, dom, trig, tabs>>

\* timeoutMs elapses while a fetch-based strategy is still transferring
\* (waiting for the response headers or reading the body).  Where the timer of
\* downloadViaFetch is still armed its callback calls controller.abort(): the
\* fetch rejects with an AbortError and the catch rethrows the timeout message.
\* Where no timer is armed (downloadViaDirectFetch sets none, downloadViaFetch
\* cleared its own once the headers arrived) nothing happens and the transfer
\* goes on
TimeoutElapses ==
    /\ cur \in {"direct-fetch", "fetch"} /\ stage \in {"fetch", "blob"}
    /\ cur \notin overdue
    /\ IF abortTimer
       THEN /\ aborted' = TRUE
            /\ abortTimer' = FALSE
            /\ promise' = [promise EXCEPT ![cur] = "rejected"]
            /\ stage' = "none"
            /\ rejection' = "timeout"
            /\ UNCHANGED overdue
       ELSE /\ overdue' = overdue \cup {cur}
            /\ UNCHANGED <<aborted, abortTimer, promise, stage, rejection>>
    /\ UNCHANGED <<apps, inputs, pure, batch, orch, bg, net, dom, trig, tabs>>

\* response.blob() settles; on success forceDownload(downloadBlob, finalFilename)
FetchBlob ==
    /\ cur = "fetch" /\ stage = "blob"
    /\ \/ ForceDownload(cur, ensureFileExtension(filename, url, contentType))
       \/ /\ stage' = "none"
          /\ promise' = [promise EXCEPT ![cur] = "rejected"]
          /\ rejection' = "failed"
          /\ UNCHANGED <<dom, trig>>
    /\ UNCHANGED <<apps, inputs, overdue, aborted, pure, batch, orch, abortTimer, bg, net, tabs>>

---------------------------------------------------------------------------
(* Strategy 3: downloadViaXHR.                                             *)

\* catch (fetchError): downloadViaXHR up to xhr.send(); for a Firebase Storage
\* url the executor parses the url first, and a throw there rejects
TryXhr ==
    /\ Falls("xhr")
    /\ Await("xhr")
    /\ IF IsFirebaseStorage(url) /\ ~UrlParses(url)
       THEN /\ promise' = [promise EXCEPT !["xhr"] = "rejected"]
            /\ stage' = "none"
            /\ UNCHANGED xhrs
       ELSE /\ promise' = [promise EXCEPT !["xhr"] = "pending"]
            /\ stage' = "xhr"
            /\ xhrs' = xhrs + 1
    /\ UNCHANGED <<apps, inputs, timing, pure, batch, abortTimer, bg, fetches, imgLoads, dom, trig, tabs>>

\* xhr.onload with status 200 (forceDownload), onload with another status,
\* onerror, ontimeout
XhrEvent ==
    /\ cur = "xhr" /\ stage = "xhr"
    /\ \/ ForceDownload(cur, ensureFileExtension(filename, url, contentType))
       \/ /\ stage' = "none"
          /\ promise' = [promise EXCEPT ![cur] = "rejected"]
          /\ rejection' = rejection
          /\ UNCHANGED <<dom, trig>>
    /\ UNCHANGED <<apps, inputs, overdue, aborted, pure, batch, orch, abortTimer, bg, net, tabs>>

---------------------------------------------------------------------------
(* Strategy 4: downloadViaCanvas.                                          *)

\* catch (xhrError), isImage: downloadViaCanvas up to img.src = url
TryCanvas ==
    /\ Falls("canvas")
    /\ Await("canvas")
    /\ promise' = [promise EXCEPT !["canvas"] = "pending"]
    /\ stage' = "img"
    /\ imgLoads' = imgLoads + 1
    /\ UNCHANGED <<apps, inputs, timing, pure, batch, abortTimer, bg, fetches, xhrs, dom, trig, tabs>>

\* img.onload (only an image decodes): the canvas is created and drawn and
\* toBlob is called; img.onerror rejects
ImageEvent ==
    /\ cur = "canvas" /\ stage = "img"
    /\ \E r \in {"load", "error"} :
         IF r = "load" /\ IsImageType(contentType)
         THEN /\ stage' = "toBlob"
              /\ created' = created \cup {"canvas.canvas"}
              /\ UNCHANGED promise
         ELSE /\ stage' = "none"
              /\ promise' = [promise EXCEPT ![cur] = "rejected"]
              /\ UNCHANGED created
    /\ UNCHANGED <<apps, inputs, timing, pure, batch, orch, abortTimer, bg, net, attached, download, activated,
                   trig, tabs>>

\* the callback of canvas.toBlob: forceDownload(blob, finalFilename) for a blob,
\* a rejection for null
ToBlob ==
    /\ cur = "canvas" /\ stage = "toBlob"
    /\ \/ ForceDownload(cur, ensureFileExtension(filename, url, "image/jpeg"))
       \/ /\ stage' = "none"
          /\ promise' = [promise EXCEPT ![cur] = "rejected"]
          /\ rejection' = rejection
          /\ UNCHANGED <<dom, trig>>
    /\ UNCHANGED <<apps, inputs, overdue, aborted, pure, batch, orch, abortTimer, bg, net, tabs>>

---------------------------------------------------------------------------
(* Strategy 5: downloadViaIframe.                                          *)

\* TryIframe resolving right after appendChild, with no timer and no removal
TryIframe_ResolveAtOnce ==
    /\ Falls("iframe")
    /\ Await("iframe")
    /\ created' = created \cup {"iframe.frame"}
    /\ IF UrlParses(url)
       THEN /\ promise' = [promise EXCEPT !["iframe"] = "resolved"]
            /\ attached' = attached \cup {"iframe.frame"}
       ELSE /\ promise' = [promise EXCEPT !["iframe"] = "rejected"]
            /\ UNCHANGED attached
    /\ stage' = "none"
    /\ UNCHANGED <<apps, inputs, timing, pure, batch, abortTimer, bg, net, download, activated, trig, tabs>>

\* the iframe strategy follows xhr (no image) or canvas: the iframe is created,
\* new URL(url) throws for a url that is not absolute (the promise rejects),
\* else the iframe is appended and the 2000 ms timer set
TryIframe ==
    /\ Falls("iframe")
    /\ Await("iframe")
    /\ created' = created \cup {"iframe.frame"}
    /\ IF UrlParses(url)
       THEN /\ promise' = [promise EXCEPT !["iframe"] = "pending"]
            /\ stage' = "iframe.timer"
            /\ attached' = attached \cup {"iframe.frame"}
       ELSE /\ promise' = [promise EXCEPT !["iframe"] = "rejected"]
            /\ stage' = "none"
            /\ UNCHANGED attached
    /\ UNCHANGED <<apps, inputs, timing, pure, batch, abortTimer, bg, net, download, activated, trig, tabs>>

\* the 2000 ms timer: remove the iframe and resolve; a throw in the removal is
\* caught and resolves too
IframeTimer ==
    /\ cur = "iframe" /\ stage = "iframe.timer"
    /\ \E cleanup \in {"ok", "throws"} :
         attached' = IF cleanup = "ok" THEN attached \ {"iframe.frame"} ELSE attached
    /\ promise' = [promise EXCEPT ![cur] = "resolved"]
    /\ stage' = "none"
    /\ UNCHANGED <<apps, inputs, timing, pure, batch, orch, abortTimer, bg, net, created, download, activated,
                   trig, tabs>>

---------------------------------------------------------------------------
(* Strategy 6: downloadViaNewTab.                                          *)

\* catch (iframeError): downloadViaNewTab, which is synchronous.  Its try
\* appends a target=_blank link, clicks it, removes it and schedules the
\* instructions; when the click throws its catch calls window.open, and a
\* throw of window.open leaves the function
TryNewTab ==
    /\ Falls("newtab")
    /\ Await("newtab")
    /\ created' = created \cup {Anchor("newtab")}
    /\ download' = download @@ (Anchor("newtab") :> filename)
    /\ stage' = "none"
    /\ \E click \in {"ok", "throws"}, open \in {"ok", "throws"} :
         IF click = "ok"
         THEN /\ activated' = activated \cup {Anchor("newtab")}
              /\ newContexts' = newContexts + 1
              /\ bg' = "instructions"
              /\ promise' = [promise EXCEPT !["newtab"] = "resolved"]
              /\ UNCHANGED <<attached, opened>>
         ELSE /\ attached' = attached \cup {Anchor("newtab")}
              /\ opened' = opened + 1
              /\ newContexts' = IF open = "ok" THEN newContexts + 1 ELSE newContexts
              /\ promise' = [promise EXCEPT !["newtab"] =
                                IF open = "ok" THEN "resolved" ELSE "rejected"]
              /\ UNCHANGED <<activated, bg>>
    /\ UNCHANGED <<apps, inputs, timing, pure, batch, abortTimer, net, trig>>

\* the 1000 ms timer of downloadViaNewTab: window.confirm shows the instructions
Instructions ==
    /\ pc = "resolved"
    /\ bg = "instructions"
    /\ bg' = "shown"
    /\ UNCHANGED <<apps, inputs, timing, pure, batch, orch, promise, stage, abortTimer, net, dom, trig, tabs>>

\* CatchNewTab with the catch left out: the exception leaves downloadFile
CatchNewTab_Rethrow ==
    /\ pc' = "rejected"
    /\ outcome' = outcome

\* catch (newTabError): return { success: false, method: 'none', error }
CatchNewTab ==
    /\ pc' = "resolved"
    /\ outcome' = AllFailed

OnNewTabFailed ==
    /\ pc = "await"
    /\ cur = "newtab"
    /\ promise[cur] = "rejected"
    /\ CatchNewTab
    /\ UNCHANGED <<apps, inputs, timing, pure, batch, cur, isImage, started, promise, stage, abortTimer, bg,
                   net, dom, trig, tabs>>

---------------------------------------------------------------------------

Next ==
    \/ Start
    \/ OnResolved
    \/ DirectFetchResponse
    \/ DirectBlob
    \/ DirectReaderLoad
    \/ DirectTimer10
    \/ DirectTimer100
    \/ TryFetch
    \/ FetchResponse
    \/ TimeoutElapses
    \/ FetchBlob
    \/ TryXhr
    \/ XhrEvent
    \/ TryCanvas
    \/ ImageEvent
    \/ ToBlob
    \/ ForceTimer
    \/ DataReader
    \/ DataTimer10
    \/ DataTimer100
    \/ TryIframe
    \/ IframeTimer
    \/ TryNewTab
    \/ Instructions
    \/ OnNewTabFailed

Spec == Init /\ [][Next]_vars

---------------------------------------------------------------------------
(* Properties of one downloadFile call.                                    *)
\* one downloadFile call in a browser whose timers fire and whose fetches,
\* XMLHttpRequests, FileReader reads and image loads all settle: an event that
\* is pending is eventually delivered
LiveSpec == Spec /\ WF_vars(Next)

---------------------------------------------------------------------------
(* downloadMultipleFiles(files, {concurrency, onProgress, onFileComplete}). *)
(* Each per-item downloadFile call is taken by its outcome alone: it        *)
(* resolves with success true, resolves with success false, or rejects.    *)
(* The callbacks are the caller's code and may throw on any call.          *)

MaxFiles == 3

MaxConcurrency == 3

\* the variables of a single downloadFile call, which a batch leaves alone
single == <<inputs, orch, promise, stage, abortTimer, bg, net, dom, trig, tabs,
            timing, pure>>

\* the indices of files
Indices == 0 .. (nFiles - 1)

\* files.slice(j, j + concurrency), by globalIndex
BatchOf(j) == {k \in Indices : j <= k /\ k < j + concurrency}

\* the entry pushed to results: { ...file, ...result, index: globalIndex }
Entry(k, ok) == [index |-> k, success |-> ok]

\* the function's locals and the items' callbacks, as one value
Locals ==
    [item |-> item, calls |-> calls, results |-> results,
     successful |-> successful, failed |-> failed]

Becomes(st) ==
    /\ item' = st.item
    /\ calls' = st.calls
    /\ results' = st.results
    /\ successful' = st.successful
    /\ failed' = st.failed

\* the catch block of item k: failed++, a failure entry is pushed, and
\* onFileComplete is called; if that call throws the item's promise rejects
Caught(st, k, complete) ==
    [st EXCEPT !.failed = @ + 1,
               !.results = Append(@, Entry(k, FALSE)),
               !.item[k] = IF complete = "throws" THEN "threw" ELSE "done"]

\* the synchronous start of item k's callback: onProgress, which may throw
\* into the catch block, then the call of downloadFile
Started(st, k, kind) ==
    IF kind = "call"
    THEN [st EXCEPT !.item[k] = "downloading", !.calls[k] = @ + 1]
    ELSE Caught(st, k, IF kind = "progress-and-complete-throw"
                       THEN "throws" ELSE "returns")

StartKinds == {"call", "progress-throws", "progress-and-complete-throw"}

\* batch.map(async ...): the callbacks of items k .. hi-1 start in order
RECURSIVE StartItems(_, _, _, _)
StartItems(st, k, hi, kinds) ==
    IF k >= hi \/ k \notin DOMAIN kinds THEN st
    ELSE StartItems(Started(st, k, kinds[k]), k + 1, hi, kinds)

\* the for loop from its test with i = j: either the next batch is sliced and
\* its callbacks started, up to await Promise.all, or the function returns
LoopFrom(j) ==
    /\ loopI' = j
    /\ IF j < nFiles
       THEN /\ bpc' = "await"
            /\ \E kinds \in [BatchOf(j) -> StartKinds] :
                 Becomes(StartItems(Locals, j, j + concurrency, kinds))
       ELSE /\ bpc' = "resolved"
            /\ UNCHANGED <<item, calls, results, successful, failed>>

\* one call downloadMultipleFiles(files, options) is about to be made
InitBatch ==
    /\ url = "" /\ filename = "" /\ contentType = ""
    /\ NoCall
    /\ resolved = "unset"
    /\ nFiles \in 0..MaxFiles
    /\ concurrency \in 0..MaxConcurrency
    /\ bpc = "init"
    /\ loopI = 0
    /\ item = [k \in Indices |-> "idle"]
    /\ calls = [k \in Indices |-> 0]
    /\ results = <<>>
    /\ successful = 0
    /\ failed = 0
    /\ delayed = {}
    /\ AppsIdle

\* the call: an empty array throws, otherwise the loop starts with i = 0
Call ==
    /\ bpc = "init"
    /\ IF nFiles = 0
       THEN /\ bpc' = "rejected"
            /\ UNCHANGED <<loopI, item, calls, results, successful, failed>>
       ELSE LoopFrom(0)
    /\ UNCHANGED <<apps, single, delayed, nFiles, concurrency>>

\* item k's downloadFile settles and its callback runs on: the counters, the
\* push, onFileComplete, then the 300 ms delay unless k is the last index; a
\* rejection, or a throw of onFileComplete, enters the catch block
ItemSettles(k) ==
    /\ item[k] = "downloading"
    /\ \E r \in {"success", "failure", "rejects"},
          complete \in {"returns", "throws"}, again \in {"returns", "throws"} :
         IF r = "rejects"
         THEN complete = "returns" /\ Becomes(Caught(Locals, k, again))
         ELSE LET pushed ==
                      [Locals EXCEPT
                          !.successful = IF r = "success" THEN @ + 1 ELSE @,
                          !.failed = IF r = "success" THEN @ ELSE @ + 1,
                          !.results = Append(@, Entry(k, r = "success"))]
              IN IF complete = "throws"
                 THEN Becomes(Caught(pushed, k, again))
                 ELSE /\ again = "returns"
                      /\ Becomes([pushed EXCEPT
                                     !.item[k] = IF k < nFiles - 1
                                                 THEN "delay" ELSE "done"])
    /\ UNCHANGED <<apps, single, delayed, nFiles, concurrency, bpc, loopI>>

\* the 300 ms timer of item k fires; its callback ends
ItemDelay(k) ==
    /\ item[k] = "delay"
    /\ item' = [item EXCEPT ![k] = "done"]
    /\ delayed' = delayed \cup {k}
    /\ UNCHANGED <<apps, single, nFiles, concurrency, bpc, loopI, calls, results,
                   successful, failed>>

\* a mutant of BatchSettled: the loop goes on without awaiting the batch
BatchSettled_NoAwait ==
    /\ bpc = "await"
    /\ LoopFrom(loopI + concurrency)
    /\ UNCHANGED <<apps, single, delayed, nFiles, concurrency>>

\* await Promise.all(batchPromises) resolves: every callback of the batch has
\* ended; i += concurrency and the loop goes on
BatchSettled ==
    /\ bpc = "await"
    /\ \A k \in BatchOf(loopI) : item[k] = "done"
    /\ LoopFrom(loopI + concurrency)
    /\ UNCHANGED <<apps, single, delayed, nFiles, concurrency>>

\* await Promise.all(batchPromises) rejects: a callback of the batch threw out
\* of its catch block; downloadMultipleFiles rejects, the other callbacks run on
BatchRejected ==
    /\ bpc = "await"
    /\ \E k \in BatchOf(loopI) : item[k] = "threw"
    /\ bpc' = "rejected"
    /\ UNCHANGED <<apps, single, delayed, nFiles, concurrency, loopI, item, calls, results,
                   successful, failed>>

NextBatch ==
    \/ Call
    \/ \E k \in Indices : ItemSettles(k)
    \/ \E k \in Indices : ItemDelay(k)
    \/ BatchSettled
    \/ BatchRejected

SpecBatch == InitBatch /\ [][NextBatch]_vars

\* one downloadMultipleFiles call whose 300 ms timers fire and whose per-item
\* downloadFile calls all settle
LiveBatch == SpecBatch /\ WF_vars(NextBatch)

---------------------------------------------------------------------------
(* bulkUpload(files, ..., concurrency) of useBulkUpload.  Each uploadFile   *)
(* is taken by its outcome alone: its promise fulfils or rejects.           *)

MaxUploads == 4

MaxUploadConcurrency == 2

\* everything bulkUpload leaves alone
notUploads == <<single, batch, notifs, pricing, favs>>

\* the files, by their position in the files argument
UploadFiles == 1 .. upFiles

\* an uploadPromise that has settled
HasSettled(st, f) == st.upload[f] \in {"success", "error"}

\* bulkUpload's queue, its active list and the uploads, as one value
UploadLocals ==
    [uploadQueue |-> uploadQueue, activeUploads |-> activeUploads,
     upload |-> upload, exited |-> FALSE]

\* the inner while: uploadFile is started for queued files while the active
\* list is shorter than concurrency
RECURSIVE StartUploads(_)
StartUploads(st) ==
    IF Len(st.activeUploads) < upConcurrency /\ st.uploadQueue # <<>>
    THEN LET fileObj == Head(st.uploadQueue)
         IN StartUploads([st EXCEPT
                !.uploadQueue = Tail(@),
                !.activeUploads = Append(@, fileObj),
                !.upload[fileObj] = "uploading"])
    ELSE st

\* activeUploads.findIndex(p => p.status !== 'pending'), 1-based: a promise has
\* no status property, so the test is true of every element and the first
\* element is found whether or not it has settled
CompletedIndex(active) == IF active = <<>> THEN 0 ELSE 1

\* activeUploads.splice(completedIndex, 1)
Splice(active, n) ==
    IF n = 0 THEN active
    ELSE SubSeq(active, 1, n - 1) \o SubSeq(active, n + 1, Len(active))

\* the outer while from its test: uploads are started, then Promise.race is
\* awaited; a race over a list that holds a settled promise resolves at once,
\* the completed index is spliced out and the loop goes round again
RECURSIVE UploadLoop(_)
UploadLoop(st) ==
    IF st.uploadQueue = <<>> /\ st.activeUploads = <<>>
    THEN [st EXCEPT !.exited = TRUE]
    ELSE LET filled == StartUploads(st)
         IN IF \E n \in 1..Len(filled.activeUploads) :
                    HasSettled(filled, filled.activeUploads[n])
            THEN UploadLoop([filled EXCEPT
                    !.activeUploads =
                        Splice(@, CompletedIndex(filled.activeUploads))])
            ELSE filled

\* the loop ran up to an await, or to the end of the function
UploadRunsOn(st, succeeded) ==
    /\ uploadQueue' = st.uploadQueue
    /\ activeUploads' = st.activeUploads
    /\ upload' = st.upload
    /\ IF ~st.exited
       THEN upc' = "await" /\ UNCHANGED returned
       ELSE IF succeeded > 0
       THEN upc' = "counts" /\ UNCHANGED returned
       ELSE /\ upc' = "returned"
            /\ returned' = [successCount |-> successCount',
                            failureCount |-> failureCount',
                            totalCount |-> upFiles,
                            results |-> Len(uploadResults')]

\* one call bulkUpload(files, ..., concurrency) is about to be made
InitUpload ==
    /\ DownloadIdle
    /\ NotificationsMounted /\ PricingConstructed /\ FavoritesEmpty
    /\ upFiles \in 0..MaxUploads
    /\ upConcurrency \in 1..MaxUploadConcurrency
    /\ upc = "init"
    /\ uploadQueue = [f \in UploadFiles |-> f]
    /\ activeUploads = <<>>
    /\ upload = [f \in UploadFiles |-> "queued"]
    /\ successCount = 0
    /\ failureCount = 0
    /\ uploadResults = <<>>
    /\ returned = NotReturned

\* the call, up to its first await or, for no files, to its return
BulkUpload ==
    /\ upc = "init"
    /\ UNCHANGED <<successCount, failureCount, uploadResults>>
    /\ UploadRunsOn(UploadLoop(UploadLocals), 0)
    /\ UNCHANGED <<notUploads, upFiles, upConcurrency>>

\* uploadFile(f) settles: the then/catch/finally chain counts it and pushes
\* its entry; if bulkUpload is awaiting a race that holds this promise the
\* race resolves, the completed index is spliced out and the loop runs on
UploadSettles(f) ==
    /\ upload[f] = "uploading"
    /\ \E r \in {"success", "error"} :
         LET settled == [UploadLocals EXCEPT !.upload[f] = r]
             raced == \E n \in 1..Len(activeUploads) : activeUploads[n] = f
         IN /\ successCount' = IF r = "success" THEN successCount + 1
                               ELSE successCount
            /\ failureCount' = IF r = "error" THEN failureCount + 1
                               ELSE failureCount
            /\ uploadResults' = Append(uploadResults, [fileObj |-> f, status |-> r])
            /\ IF upc = "await" /\ raced
               THEN UploadRunsOn(
                        UploadLoop([settled EXCEPT
                            !.activeUploads = Splice(@, CompletedIndex(activeUploads))]),
                        successCount')
               ELSE /\ upload' = settled.upload
                    /\ UNCHANGED <<uploadQueue, activeUploads, upc, returned>>
    /\ UNCHANGED <<notUploads, upFiles, upConcurrency>>

\* await updateCategoryCounts(...) settles; bulkUpload returns
CountsUpdated ==
    /\ upc = "counts"
    /\ upc' = "returned"
    /\ returned' = [successCount |-> successCount, failureCount |-> failureCount,
                    totalCount |-> upFiles, results |-> Len(uploadResults)]
    /\ UNCHANGED <<notUploads, upFiles, upConcurrency, uploadQueue, activeUploads,
                   upload, successCount, failureCount, uploadResults>>

NextUpload ==
    \/ BulkUpload
    \/ \E f \in UploadFiles : UploadSettles(f)
    \/ CountsUpdated

SpecUpload == InitUpload /\ [][NextUpload]_vars

---------------------------------------------------------------------------
(* NotificationProvider: the notifications list and its unread counter.    *)

MaxNotifications == 4

MaxUnreadCount == 4

\* everything NotificationProvider leaves alone
notNotifs == <<single, batch, uploads, pricing, favs>>

\* the ids of the samples, the id Date.now() gives a new notification (two
\* notifications added in the same millisecond share it), and an id no
\* notification has
SampleIds == {"1", "2", "3"}

NewIds == {"4"}

UnknownIds == {"9"}

NotificationIds == SampleIds \cup NewIds \cup UnknownIds

\* Math.max(0, n)
Max0(n) == IF n < 0 THEN 0 ELSE n

\* prev.map(n => n.id === id ? { ...n, read: true } : n)
MapRead(list, id) ==
    [n \in 1..Len(list) |->
        IF list[n].id = id THEN Notification(list[n].id, TRUE) ELSE list[n]]

\* prev.filter(n => n.id !== id)
RECURSIVE FilterOut(_, _)
FilterOut(list, id) ==
    IF list = <<>> THEN <<>>
    ELSE IF Head(list).id = id THEN FilterOut(Tail(list), id)
    ELSE <<Head(list)>> \o FilterOut(Tail(list), id)

\* prev.find(n => n.id === id) exists and is unread
FoundUnread(list, id) ==
    \E n \in 1..Len(list) :
        /\ list[n].id = id
        /\ \A m \in 1..(n - 1) : list[m].id # id
        /\ ~list[n].read

InitNotifications ==
    /\ DownloadIdle
    /\ UploadIdle /\ PricingConstructed /\ FavoritesEmpty
    /\ NotificationsMounted

addNotification(id) ==
    /\ Len(notifications) < MaxNotifications
    /\ unreadCount < MaxUnreadCount
    /\ notifications' = <<Notification(id, FALSE)>> \o notifications
    /\ unreadCount' = unreadCount + 1
    /\ UNCHANGED notNotifs

markAsRead(id) ==
    /\ notifications' = MapRead(notifications, id)
    /\ unreadCount' = Max0(unreadCount - 1)
    /\ UNCHANGED notNotifs

markAllAsRead ==
    /\ notifications' = [n \in 1..Len(notifications) |->
                            Notification(notifications[n].id, TRUE)]
    /\ unreadCount' = 0
    /\ UNCHANGED notNotifs

removeNotification(id) ==
    /\ notifications' = FilterOut(notifications, id)
    /\ unreadCount' = IF FoundUnread(notifications, id)
                      THEN Max0(unreadCount - 1) ELSE unreadCount
    /\ UNCHANGED notNotifs

clearAllNotifications ==
    /\ notifications' = <<>>
    /\ unreadCount' = 0
    /\ UNCHANGED notNotifs

NextNotifications ==
    \/ \E id \in NewIds : addNotification(id)
    \/ \E id \in NotificationIds : markAsRead(id)
    \/ markAllAsRead
    \/ \E id \in NotificationIds : removeNotification(id)
    \/ clearAllNotifications

SpecNotifications == InitNotifications /\ [][NextNotifications]_vars

---------------------------------------------------------------------------
(* PricingManager: real-time listeners by key, and the price cache.  The    *)
(* backend's onSnapshot returns an unsubscribe function for the listener it *)
(* creates; subscribeToPricing returns that function to its caller.         *)

\* everything PricingManager leaves alone
notPricing == <<single, batch, uploads, notifs, favs>>

\* `${categoryId}_${subCategoryId}_${mediaType}`
PricingKeys == {"kitchen_modern_image", "kitchen_modern_video"}

MediaIds == {"m1", "m2"}

\* the backend listeners created so far
Created == {l \in ListenerIds : l < nextListener}

\* a map without key k
Without(map, k) == [x \in DOMAIN map \ {k} |-> map[x]]

\* unsubscribeFromPricing(listenerKey) as a value: the listener map, the active
\* backend listeners and the calls made, after it
Unsubscribed(k) ==
    IF k \in DOMAIN listeners
    THEN [listeners |-> Without(listeners, k),
          activeListeners |-> activeListeners \ {listeners[k]},
          managerCalls |-> [managerCalls EXCEPT ![listeners[k]] = @ + 1]]
    ELSE [listeners |-> listeners, activeListeners |-> activeListeners,
          managerCalls |-> managerCalls]

InitPricing ==
    /\ DownloadIdle
    /\ UploadIdle /\ NotificationsMounted /\ FavoritesEmpty
    /\ PricingConstructed

\* subscribeToPricing: the existing listener of the key is unsubscribed, then
\* onSnapshot creates the new one, which is stored and returned; if onSnapshot
\* throws nothing is stored and null is returned
subscribeToPricing(k) ==
    /\ nextListener <= MaxListeners
    /\ \E r \in {"ok", "throws"} :
         LET un == Unsubscribed(k) IN
         /\ managerCalls' = un.managerCalls
         /\ IF r = "ok"
            THEN /\ listeners' = (k :> nextListener) @@ un.listeners
                 /\ activeListeners' = un.activeListeners \cup {nextListener}
                 /\ keyOf' = [keyOf EXCEPT ![nextListener] = k]
                 /\ nextListener' = nextListener + 1
            ELSE /\ listeners' = un.listeners
                 /\ activeListeners' = un.activeListeners
                 /\ UNCHANGED <<keyOf, nextListener>>
    /\ cleaned' = FALSE
    /\ UNCHANGED <<notPricing, cache, callerCalls>>

unsubscribeFromPricing(k) ==
    /\ listeners' = Unsubscribed(k).listeners
    /\ activeListeners' = Unsubscribed(k).activeListeners
    /\ managerCalls' = Unsubscribed(k).managerCalls
    /\ cleaned' = FALSE
    /\ UNCHANGED <<notPricing, cache, nextListener, keyOf, callerCalls>>

\* the caller calls the unsubscribe function subscribeToPricing returned for
\* listener l: the backend listener stops; PricingManager is not involved
CallReturnedUnsubscribe(l) ==
    /\ l \in Created
    /\ callerCalls[l] = 0
    /\ callerCalls' = [callerCalls EXCEPT ![l] = 1]
    /\ activeListeners' = activeListeners \ {l}
    /\ UNCHANGED <<notPricing, listeners, cache, nextListener, keyOf, managerCalls,
                   cleaned>>

\* the snapshot callback of an active listener: the prices of the snapshot go
\* into the cache
Snapshot(l) ==
    /\ l \in activeListeners
    /\ \E ids \in SUBSET MediaIds : cache' = cache \cup ids
    /\ cleaned' = FALSE
    /\ UNCHANGED <<notPricing, listeners, activeListeners, nextListener, keyOf,
                   managerCalls, callerCalls>>

\* cleanup(): every stored unsubscribe function is called, the listener map
\* and the cache are cleared
cleanup ==
    /\ managerCalls' = [l \in ListenerIds |->
                           IF \E k \in DOMAIN listeners : listeners[k] = l
                           THEN managerCalls[l] + 1 ELSE managerCalls[l]]
    /\ activeListeners' = activeListeners \ {listeners[k] : k \in DOMAIN listeners}
    /\ listeners' = <<>>
    /\ cache' = {}
    /\ cleaned' = TRUE
    /\ UNCHANGED <<notPricing, nextListener, keyOf, callerCalls>>

NextPricing ==
    \/ \E k \in PricingKeys : subscribeToPricing(k)
    \/ \E k \in PricingKeys : unsubscribeFromPricing(k)
    \/ \E l \in ListenerIds : CallReturnedUnsubscribe(l)
    \/ \E l \in ListenerIds : Snapshot(l)
    \/ cleanup

SpecPricing == InitPricing /\ [][NextPricing]_vars

---------------------------------------------------------------------------
(* Favorites in localStorage: toggleFavorite and the functions it calls.   *)
(* A localStorage call may throw (storage denied, quota exceeded, a stored  *)
(* value that does not parse).                                              *)

\* everything the favorites functions leave alone
notFavs == <<single, batch, uploads, notifs, pricing>>

Images == {"img1", "img2"}

InitFavorites ==
    /\ DownloadIdle
    /\ UploadIdle /\ NotificationsMounted /\ PricingConstructed
    /\ FavoritesEmpty

\* getFavorites(userId): the stored ids, or [] when reading throws
getFavorites(u, read) == IF read = "ok" THEN storage[u] ELSE {}

\* isFavorited(imageId, userId)
isFavorited(img, u, read) == img \in getFavorites(u, read)

\* localStorage.setItem(storageKey, ...) inside a try: the value is stored, or
\* the call throws and the catch returns getFavorites(userId)
SetItem(u, ids, write) ==
    storage' = IF write = "ok" THEN [storage EXCEPT ![u] = ids] ELSE storage

\* saveToFavorites(image, userId): nothing is written when the image is
\* already in the list that was read
saveToFavorites(img, u, read, write) ==
    LET currentFavorites == getFavorites(u, read)
    IN IF img \in currentFavorites THEN UNCHANGED storage
       ELSE SetItem(u, currentFavorites \cup {img}, write)

\* removeFromFavorites(imageId, userId)
removeFromFavorites(img, u, read, write) ==
    SetItem(u, getFavorites(u, read) \ {img}, write)

\* toggleFavorite(image, userId) and the object it returns
toggleFavorite(img, u) ==
    \E read1 \in {"ok", "throws"}, read2 \in {"ok", "throws"},
       write \in {"ok", "throws"} :
        LET isCurrentlyFavorited == isFavorited(img, u, read1)
        IN /\ IF isCurrentlyFavorited
              THEN removeFromFavorites(img, u, read2, write)
              ELSE saveToFavorites(img, u, read2, write)
           /\ lastToggle' = [image |-> img, user |-> u,
                             isFavorited |-> ~isCurrentlyFavorited,
                             before |-> img \in storage[u]]
           /\ prevToggle' = lastToggle
           /\ UNCHANGED notFavs

NextFavorites == \E img \in Images, u \in FavoriteUsers : toggleFavorite(img, u)

SpecFavorites == InitFavorites /\ [][NextFavorites]_vars

---------------------------------------------------------------------------
(* ensureFileExtension on its own: one call with arguments drawn from the  *)
(* kinds of name, url and content type the function distinguishes.         *)

\* names: empty, without a dot, with a short extension, ending in a dot, with
\* a last segment longer than four characters
Names == {"", "photo", "img.jpg", "a.", "archive.backup", "clip.final."}

\* content types: absent, known image and video types, upper case, unknown
Types == {"", "image/png", "video/mp4", "IMAGE/JPEG", "text/plain"}

InitResolve ==
    /\ filename \in Names
    /\ url \in Urls
    /\ contentType \in Types
    /\ NoCall
    /\ resolved = "unset"
    /\ BatchIdle
    /\ AppsIdle

\* the call ensureFileExtension(filename, url, contentType) returns
Resolve ==
    /\ resolved = "unset"
    /\ resolved' = ensureFileExtension(filename, url, contentType)
    /\ UNCHANGED <<apps, inputs, orch, promise, stage, abortTimer, bg, net, dom, trig,
                   tabs, timing, batch>>

NextResolve == Resolve

SpecResolve == InitResolve /\ [][NextResolve]_vars


Settled == pc \in {"resolved", "rejected"}

\* a TransferOutcome: success with the method of a strategy, or the one failure
IsTransferOutcome(o) ==
    \/ o.success /\ o.method \in Strategies /\ o.error = ""
    \/ ~o.success /\ o.method = "none" /\ o.error # ""

\* direct-fetch, fetch, xhr and, for a url taken as an image, canvas all rejected
AutomatedAllRejected ==
    /\ promise["direct-fetch"] = "rejected"
    /\ promise["fetch"] = "rejected"
    /\ promise["xhr"] = "rejected"
    /\ isImage => promise["canvas"] = "rejected"

\* the strategy is one downloadFile tries for this url
Applicable(s) == s # "canvas" \/ isImage

\* C1, as stated: downloadFile never rejects, for every url and filename, the
\* empty ones included; it resolves with a TransferOutcome.
C1_NeverRejects ==
    /\ pc # "rejected"
    /\ pc = "resolved" => IsTransferOutcome(outcome)

\* C1, amended: downloadFile rejects only for an empty url or filename; with both
\* non-empty it never rejects, and what it resolves with is a TransferOutcome
\* whose only failure form is {success: false, method: 'none', error}.
C1_RejectsOnlyEmptyArguments ==
    /\ pc = "rejected" => (url = "" \/ filename = "")
    /\ pc = "resolved" => IsTransferOutcome(outcome)

\* C1's case: a call whose last strategy threw, resolved with the failure outcome
C1_Witness == pc = "resolved" /\ outcome = AllFailed /\ promise["newtab"] = "rejected"

\* C2: the strategies start in the order direct-fetch, fetch, xhr, canvas,
\* iframe, newtab; one starts only when every earlier applicable one has
\* rejected; at most one is pending, a resolved one is the last started and is
\* the reported method, and work left behind by a settled strategy runs only
\* when no later strategy was started.
C2_Sequential ==
    /\ \A i, j \in 1..Len(started) : i < j => Rank(started[i]) < Rank(started[j])
    /\ \A s \in Strategies : promise[s] # "none" <=> \E i \in 1..Len(started) : started[i] = s
    /\ \A i \in 1..Len(started) : \A e \in Strategies :
          (Rank(e) < Rank(started[i]) /\ Applicable(e)) => promise[e] = "rejected"
    /\ Cardinality({s \in Strategies : promise[s] = "pending"}) <= 1
    /\ \A s \in Strategies : promise[s] = "resolved" =>
          /\ started[Len(started)] = s
          /\ pc = "resolved" => outcome = Succeeded(s)
    /\ bg \in {"reader", "t10", "t100"} => started = <<"direct-fetch">>

\* C2's case: the whole chain ran, each strategy after the failure of the one before
C2_Witness == started = Order /\ pc = "resolved" /\ outcome = Succeeded("newtab")

\* C3, as stated: when every automated transport rejected, the outcome is
\* {success: true, method: 'newtab'} and a new browsing context was opened.
C3_ExhaustionEndsInNewTab ==
    (pc = "resolved" /\ AutomatedAllRejected) =>
        (outcome = Succeeded("newtab") /\ newContexts > 0)

\* C3, amended: when every automated transport rejected, downloadFile starts the
\* iframe strategy next; when that resolves the outcome is {success: true,
\* method: 'iframe'} and no new browsing context is opened; the new-tab strategy
\* runs, and 'newtab' is reported (with a new browsing context opened), only
\* when the iframe strategy rejected.
C3_ExhaustionGoesThroughIframe ==
    /\ (pc = "resolved" /\ AutomatedAllRejected) => promise["iframe"] \in {"resolved", "rejected"}
    /\ (pc = "resolved" /\ AutomatedAllRejected /\ promise["iframe"] = "resolved") =>
          /\ outcome = Succeeded("iframe")
          /\ newContexts = 0 /\ opened = 0 /\ promise["newtab"] = "none"
    /\ promise["newtab"] # "none" => (AutomatedAllRejected /\ promise["iframe"] = "rejected")
    /\ (pc = "resolved" /\ outcome.method = "newtab") => newContexts > 0

\* C3's case: the automated transports all rejected and the call ended as iframe
C3_Witness ==
    pc = "resolved" /\ AutomatedAllRejected /\ outcome = Succeeded("iframe")

\* C4, as stated: the new-tab strategy never fails, so a call that started its
\* strategy chain never ends with success: false.
C4_ChainNeverFails ==
    /\ pc = "resolved" => outcome.success
    /\ (pc = "resolved" /\ promise["newtab"] # "none") => outcome = Succeeded("newtab")

\* C5: with an empty url or filename the call fails before any strategy runs:
\* no fetch, no XHR, no image load, no element created, no window opened.
C5_FailFast ==
    (url = "" \/ filename = "") =>
        /\ pc \in {"init", "rejected"}
        /\ started = <<>>
        /\ \A s \in Strategies : promise[s] = "none"
        /\ fetches = 0 /\ xhrs = 0 /\ imgLoads = 0
        /\ created = {} /\ attached = {}
        /\ opened = 0 /\ newContexts = 0

\* C5's case: a call with a url and an empty filename has failed
C5_Witness == pc = "rejected" /\ url # "" /\ filename = ""

\* C6, as stated: downloadFile("https://good.example/img.jpg", "") where no
\* fetch fails ends as success by direct-fetch or fetch, and the filename
\* handed to the browser ends in .jpg.
C6_EmptyFilenameDerived ==
    ( /\ url = "https://good.example/img.jpg" /\ filename = ""
      /\ Settled
      /\ promise["direct-fetch"] # "rejected" /\ promise["fetch"] # "rejected" ) =>
        /\ pc = "resolved"
        /\ outcome.success /\ outcome.method \in {"direct-fetch", "fetch"}
        /\ \A a \in DOMAIN download : EndsWith(download[a], ".jpg")

\* C7, as stated: when the promise of direct-fetch, fetch or xhr resolves, the
\* anchor activation of that strategy has already been performed.
C7_ActivatedWhenResolved ==
    \A s \in {"direct-fetch", "fetch", "xhr"} :
        promise[s] = "resolved" => (Anchor(s) \in activated \/ DataAnchor(s) \in activated)

\* C8, as stated: in direct-fetch, fetch, xhr and canvas a trigger failure (every
\* activation threw) rejects the strategy's promise: it is not reported as
\* success and the promise is not left pending.
C8_TriggerFailureRejects ==
    \A s \in {"direct-fetch", "fetch", "xhr", "canvas"} :
        s \in failedTrig => promise[s] = "rejected"

\* C9, as stated: for an image resource on which direct-fetch, fetch and xhr
\* rejected and the canvas strategy did not fail, the reported method is canvas.
C9_CanvasReported ==
    ( /\ pc = "resolved"
      /\ IsImageType(contentType)
      /\ promise["direct-fetch"] = "rejected"
      /\ promise["fetch"] = "rejected"
      /\ promise["xhr"] = "rejected"
      /\ promise["canvas"] # "rejected" ) =>
        outcome = Succeeded("canvas")

\* C10, as stated: for a resource of content type video/mp4 the canvas strategy
\* is never started, whatever the url.
C10_VideoSkipsCanvas ==
    contentType = "video/mp4" => (promise["canvas"] = "none" /\ imgLoads = 0)

\* C11, as stated: the iframe strategy never rejects, for every url, and has
\* resolved only with the hidden iframe removed from the document.
C11_IframeNeverRejects ==
    /\ promise["iframe"] # "rejected"
    /\ promise["iframe"] = "resolved" => "iframe.frame" \notin attached

\* C11, amended: the iframe strategy rejects, at once and with no iframe
\* attached, exactly when new URL(url) throws; for a url that parses it never
\* rejects, stays pending with the iframe attached until its 2000 ms timer
\* fires, and resolves only in that timer, which removes the iframe or leaves
\* it attached when the removal throws.
C11_IframeResolvesInTimer ==
    [][ /\ promise'["iframe"] = "pending" =>
              (stage' = "iframe.timer" /\ "iframe.frame" \in attached' /\ UrlParses(url))
        /\ (promise["iframe"] # "rejected" /\ promise'["iframe"] = "rejected") =>
              (promise["iframe"] = "none" /\ ~UrlParses(url) /\ "iframe.frame" \notin attached')
        /\ (promise["iframe"] # "resolved" /\ promise'["iframe"] = "resolved") =>
              /\ promise["iframe"] = "pending" /\ stage = "iframe.timer"
              /\ attached' \in {attached, attached \ {"iframe.frame"}}
      ]_vars

\* C11's case: the iframe strategy resolved after its timer removed the iframe
C11_Witness ==
    promise["iframe"] = "resolved" /\ "iframe.frame" \in created /\ "iframe.frame" \notin attached

\* the elements a strategy appends to document.body
ElementsOf(s) ==
    {Anchor(s), DataAnchor(s)} \cup (IF s = "iframe" THEN {"iframe.frame"} ELSE {})

\* the strategy has settled and none of its timers or readers is still to run
SettledAndQuiet(s) ==
    /\ promise[s] \in {"resolved", "rejected"}
    /\ s = "direct-fetch" => bg \notin {"reader", "t10", "t100"}

\* C12, as stated: once a strategy has settled and its cleanup timers have run,
\* no anchor or iframe it appended is attached any more, also when the
\* activation call threw.
C12_NoElementLeft ==
    \A s \in Strategies : SettledAndQuiet(s) => ElementsOf(s) \cap attached = {}

\* forceDownload's 300 ms timer for the object URL of strategy s has run
GraceDelayOver(s) == blobUrl[s] # "none" /\ ~(cur = s /\ stage = "fd.timer")

\* C13, as stated: every object URL the trigger created is revoked exactly
\* once, whether or not an activation worked, and only after the activation
\* attempts and the grace delay.
C13_RevokedExactlyOnce ==
    /\ \A s \in Triggering : GraceDelayOver(s) => blobUrl[s] = "revoked"
    /\ \A s \in Triggering : blobUrl[s] = "revoked" => (GraceDelayOver(s) /\ attempts # <<>>)
    /\ revokes = Cardinality({s \in Triggering : blobUrl[s] = "revoked"})

\* C14: every fetch-based strategy honors the timeout: a transfer (headers or
\* body) that has not completed when timeoutMs elapses is aborted and the
\* strategy rejects, so no fetch-based strategy ever outlasts the timeout; and
\* downloadViaFetch rejects with the timeout message exactly when the abort
\* fired, with the generic failure message otherwise
FetchBased == {"direct-fetch", "fetch"}

C14_TimeoutHonored ==
    /\ \A s \in FetchBased : s \notin overdue
    /\ promise["fetch"] = "rejected" =>
          /\ rejection \in {"timeout", "failed"}
          /\ rejection = "timeout" <=> aborted

\* C15: ensureFileExtension is total: for every (name, url, contentType),
\* including an empty name, a name ending in '.' and an unparsable url, it
\* returns a non-empty string that ends in '.' followed by an extension of 1
\* to 4 characters
HasExtension(r) ==
    /\ r # ""
    /\ Includes(r, ".")
    /\ Len(AfterLastDot(r)) \in 1..4

C15_AlwaysAnExtension == resolved # "unset" => HasExtension(resolved)

\* C16: for an empty name and a known image/video content type the function
\* returns 'download' with the canonical extension of that type
C16_DefaultNameTakesTypeExtension ==
    (resolved # "unset" /\ filename = "" /\ ToLowerCase(contentType) \in DOMAIN typeMap)
        => resolved = "download." \o typeMap[ToLowerCase(contentType)]

\* C17: whichever strategy succeeds, the filename set on the download trigger
\* is ensureFileExtension(filename, url, response content type): every anchor
\* that was activated carries the resolved filename in its download attribute
\* (photo.png for the name "photo" and the content type image/png)
C17_TriggerCarriesResolvedName ==
    \A a \in activated :
        download[a] = ensureFileExtension(filename, url, contentType)

\* C18: for every concurrency limit n >= 1 and every item list, at no instant
\* are more than n per-item downloadFile calls in flight
InFlight == {k \in Indices : item[k] = "downloading"}

C18_AtMostNInFlight ==
    concurrency >= 1 => Cardinality(InFlight) <= concurrency

\* C18's case: a limit of 2 on more than 2 items, 2 calls in flight
C18_Witness ==
    /\ concurrency = 2 /\ nFiles > 2
    /\ Cardinality(InFlight) = 2

\* C19: when downloadMultipleFiles resolves, results.length = items.length,
\* every index appears in results exactly once, and successful + failed =
\* total, whatever the items and the callbacks do
EntriesOf(k) == {n \in 1..Len(results) : results[n].index = k}

C19_OneResultPerItem ==
    bpc = "resolved" =>
        /\ Len(results) = nFiles
        /\ \A k \in Indices : Cardinality(EntriesOf(k)) = 1
        /\ successful + failed = nFiles

\* C20: during downloadMultipleFiles results.length only grows and never
\* exceeds items.length, and when the call resolves downloadFile has been
\* invoked exactly once for each item
C20_GrowsToLengthOneCallEach ==
    /\ [](Len(results) <= nFiles)
    /\ [][Len(results') >= Len(results)]_vars
    /\ [](bpc = "resolved" => \A k \in Indices : calls[k] = 1)

\* C21: the results returned by downloadMultipleFiles are index-aligned with
\* items: for every k, results[k] is the outcome of items[k], for every
\* concurrency limit and every completion order
C21_ResultsIndexAligned ==
    bpc = "resolved" =>
        \A n \in 1..Len(results) : results[n].index = n - 1

\* C22: with concurrency 1, between the settling of an item and the start of
\* the next item's downloadFile call the 300 ms inter-item timer elapses,
\* whether the earlier item succeeded, returned a failed outcome or threw
C22_DelayBetweenItems ==
    concurrency = 1 =>
        \A k \in Indices :
            (k + 1 \in Indices /\ calls[k] >= 1 /\ calls[k + 1] >= 1)
                => k \in delayed

\* C23: in forceDownload the activation techniques are attempted in the fixed
\* order click, mouse event, focus-then-click, then the remaining fallbacks;
\* technique k+1 is attempted only if techniques 1..k all threw; once one
\* returns without throwing no further one is attempted, so at most one
\* activation is dispatched per trigger call
C23_OneActivationInOrder ==
    /\ Len(attempts) <= Len(Approaches)
    /\ attempts = SubSeq(Approaches, 1, Len(attempts))
    /\ Len(dispatched) <= 1
    /\ success <=> (dispatched # <<>> /\ dispatched[1] = attempts[Len(attempts)])
    /\ (attempts # <<>> /\ ~success) => attempts = Approaches
    /\ (dispatched # <<>> /\ ~success) => dispatched = <<"data-url">>

\* C23's case: click and mouse event threw, focus-then-click worked and the
\* fourth technique was not attempted
C23_Witness ==
    /\ attempts = <<"click", "mouse-event", "focus-click">>
    /\ dispatched = <<"focus-click">>
    /\ success

\* C24: when timers fire and every started fetch, XMLHttpRequest, FileReader
\* read and image load settles, every downloadFile call with a non-empty url
\* and filename eventually resolves, with exactly one TransferOutcome, whatever
\* strategy and trigger failures occur
C24_EventuallyResolvesOnce ==
    /\ (url # "" /\ filename # "") => <>(pc = "resolved")
    /\ [][pc = "resolved" => (pc' = "resolved" /\ outcome' = outcome)]_vars

\* C25: downloadMultipleFiles terminates: for every non-empty array and every
\* concurrency value it accepts, the loop index strictly advances on each
\* iteration (i += concurrency makes i larger) and the call eventually
\* resolves once every per-item downloadFile has settled
C25_BatchTerminates ==
    /\ [](bpc = "await" => loopI + concurrency > loopI)
    /\ nFiles > 0 => <>(bpc = "resolved")

\* C26: bulkUpload is concurrency-limited: for every file list and every
\* concurrency c, at no instant are more than c uploadFile operations in
\* flight (started and not yet settled)
Uploading == {f \in UploadFiles : upload[f] = "uploading"}

C26_AtMostCUploading == Cardinality(Uploading) <= upConcurrency

\* C27: bulkUpload returns only after every file's upload has settled: in the
\* returned object successCount + failureCount = totalCount and results has
\* one entry per file; after the return nothing is uploading and no counter
\* changes
C27_ReturnsAfterAllSettled ==
    /\ [](upc = "returned" =>
            /\ returned.successCount + returned.failureCount = returned.totalCount
            /\ returned.results = upFiles
            /\ Uploading = {})
    /\ [][upc = "returned" =>
            (successCount' = successCount /\ failureCount' = failureCount)]_vars

\* C28: in NotificationProvider, after any sequence of addNotification,
\* markAsRead, markAllAsRead, removeNotification and clearAllNotifications
\* (markAsRead on an already-read or unknown id included), unreadCount equals
\* the number of notifications whose read flag is false
Unread == {n \in 1..Len(notifications) : ~notifications[n].read}

C28_UnreadCountIsExact == unreadCount = Cardinality(Unread)

\* C29: in PricingManager, after any sequence of subscribeToPricing,
\* unsubscribeFromPricing, calls of a returned unsubscribe function and
\* cleanup: at most one backend listener is active per key, each backend
\* unsubscribe function is invoked at most once, and after cleanup no
\* listener is active and the listener map and the cache are empty
ActiveFor(k) == {l \in activeListeners : keyOf[l] = k}

C29_ListenersWellManaged ==
    /\ \A k \in PricingKeys : Cardinality(ActiveFor(k)) <= 1
    /\ \A l \in ListenerIds : managerCalls[l] + callerCalls[l] <= 1
    /\ cleaned => (activeListeners = {} /\ listeners = <<>> /\ cache = {})

\* C30: toggleFavorite adds the image if it is not favorited and removes it if
\* it is: after every call, one in which reading or writing localStorage
\* fails included, the returned isFavorited flag equals the image's membership
\* in the stored favorites of that user, and two consecutive toggles of the
\* same image restore the original membership
StoredNow(t) == t.image \in storage[t.user]

C30_ToggleMatchesStorage ==
    lastToggle # NoToggle =>
        /\ lastToggle.isFavorited = StoredNow(lastToggle)
        /\ (prevToggle.image = lastToggle.image /\ prevToggle.user = lastToggle.user)
              => StoredNow(lastToggle) = prevToggle.before

====
